---- MODULE Spec2Model ----
(***************************************************************************)
(* Itihaasa: the state held by the App component (src/App.tsx) and the     *)
(* asynchronous handlers that read and write it.  Every await of a handler *)
(* is a point where the handler instance is suspended; a suspended         *)
(* instance is a record in placeReqs, chatReqs or reconReqs, and the       *)
(* arrival of the gateway's answer is a separate action.                   *)
(***************************************************************************)
EXTENDS Integers, Sequences, FiniteSets, TLC

\* ---------------------------------------------------------------- bounds
MaxSelects == 2        \* handlePlaceSelect calls in one behaviour
MaxLangChanges == 2    \* language switches in one behaviour
MaxSends == 2          \* handleChatSend calls that pass the trim test
MaxJobs == 2           \* startReconstruction calls that pass the image test
MaxIgnored == 1        \* presses of the start control while it is disabled
MaxRejected == 1       \* handleChatSend calls that stop at the trim test
MaxIntents == 2        \* user intents in one behaviour of the whole program
MaxCandidates == 6     \* image candidates a page lists
MaxLive == 2           \* selections and jobs in one behaviour of SpecLive

\* ------------------------------------------------------------ value sets
NULL == "null"                  \* null of a string-valued state variable
NoPlace == [none |-> TRUE]      \* selectedPlace === null
NoPrompt == [none |-> TRUE]     \* no generator call issued yet
Languages == {"en", "te", "hi"}
Views == {"home", "explore", "reconstruct"}
Places == {"Lepakshi", "Amravati"}
Summaries == {"", "extract"}
ImageLists == {<< >>, <<[url |-> "u1.jpg", caption |-> "c1"]>>}
\* What JSON.parse can hand back for a generator answer: the number of poets
\* in it and whether every required field is present.
Responses == {[poets |-> 2, complete |-> TRUE],
              [poets |-> 1, complete |-> TRUE],
              [poets |-> 2, complete |-> FALSE]}
SearchResults == {<<"Lepakshi", "Amravati">>}
\* Texts are sequences of characters, so that trim() can be computed.
ChatInputs == {<< >>, <<" ">>, <<"a">>, <<" ", "b">>}
ChatApology ==
    <<"I'm having trouble connecting to history right now. Please try again.">>
Files == {"data:f1", "data:f2"}
\* The parts of a restoration answer: "text" is a text part, anything else
\* the data of an inlineData part.
PartLists == {<< >>, <<"text">>, <<"d1">>, <<"d1", "text", "d2">>}
DefaultContext == "Andhra Heritage"
FetchAlert == "Error fetching heritage data. Please try again."
ReconAlert == "Reconstruction failed. Ensure the image is clear and try again."

VARIABLES
    lang,            \* useState<Language>
    view,            \* useState<'home'|'explore'|'reconstruct'>
    placesList,      \* useState<string[]>
    searchPc,        \* the initial searchHeritagePlaces promise
    selectedPlace,   \* useState<PlaceDetails|null>
    loading,         \* useState(false)
    placeReqs,       \* suspended handlePlaceSelect instances
    alerts,          \* the alert() dialogs shown so far, in order
    chatMessages,    \* useState<ChatMessage[]>
    chatInput,       \* useState('')
    chatReqs,        \* suspended handleChatSend instances
    originalImage,   \* useState<string|null>
    reader,          \* the file a FileReader is reading, if any
    reconstructedImage, \* useState<string|null>
    reconLoading,    \* useState(false)
    reconReqs,       \* suspended startReconstruction instances
    nSelect,         \* history: handlePlaceSelect calls so far
    nLang,           \* history: language switches so far
    nSends,          \* history: handleChatSend calls past the trim test
    nRejected,       \* history: handleChatSend calls stopped by the trim test
    nJobs,           \* history: startReconstruction calls past the image test
    nIgnored,        \* history: presses of the disabled start control
    lastJob,         \* history: how the latest startReconstruction call ended
    calls,           \* history: gateway calls issued, per gateway method
    genLog,          \* history: reports returned by getStructuredContent
    clearedAt,       \* history: handlePlaceSelect calls made before the
                     \* latest "Back to explore"
    imgPc,           \* getPlaceImages: where the call stands
    pageImages,      \* getPlaceImages: images, the page's image candidates
    imgInfo,         \* history: the imageinfo answers received, in order
    imageUrls        \* getPlaceImages: imageUrls, the result being built

navVars == <<view, placesList, searchPc>>
selVars == <<selectedPlace, loading, placeReqs, nSelect, genLog, clearedAt>>
chatVars == <<chatMessages, chatInput, chatReqs, nSends, nRejected>>
jobVars == <<originalImage, reader, reconstructedImage, reconLoading,
             reconReqs, nJobs, nIgnored, lastJob>>
imgVars == <<imgPc, pageImages, imgInfo, imageUrls>>
vars == <<lang, nLang, alerts, calls, navVars, selVars, chatVars, jobVars,
          imgVars>>

Init ==
    /\ lang = "en"
    /\ view = "home"
    /\ placesList = << >>
    /\ searchPc = "pending"
    /\ selectedPlace = NoPlace
    /\ loading = FALSE
    /\ placeReqs = {}
    /\ alerts = << >>
    /\ chatMessages = << >>
    /\ chatInput = << >>
    /\ chatReqs = {}
    /\ originalImage = NULL
    /\ reader = NULL
    /\ reconstructedImage = NULL
    /\ reconLoading = FALSE
    /\ reconReqs = {}
    /\ nSelect = 0
    /\ nLang = 0
    /\ nSends = 0
    /\ nRejected = 0
    /\ nJobs = 0
    /\ nIgnored = 0
    /\ lastJob = "none"
    /\ calls = [summary |-> 0, images |-> 0, generate |-> 0, restore |-> 0,
                chat |-> 0, search |-> 1]
    /\ genLog = << >>
    /\ clearedAt = 0
    /\ imgPc = "idle"
    /\ pageImages = << >>
    /\ imgInfo = << >>
    /\ imageUrls = << >>

\* The number of selectPlace / changeLanguage intents issued so far.
Generation == nSelect + nLang

\* ------------------------------------------------------------- selection
\* A language switch that runs the whole selection again for the place on
\* display.
SetLangReselect(l) ==
    /\ l # lang
    /\ nLang < MaxLangChanges
    /\ lang' = l
    /\ nLang' = nLang + 1
    /\ IF selectedPlace # NoPlace
       THEN /\ placeReqs' = placeReqs \cup
                 {[gen |-> Generation + 1, n |-> 0,
                   name |-> selectedPlace.name, lang |-> l,
                   pc |-> "summary", summary |-> "", images |-> << >>,
                   prompt |-> NoPrompt]}
            /\ calls' = [calls EXCEPT !.summary = @ + 1]
       ELSE UNCHANGED <<placeReqs, calls>>
    /\ UNCHANGED <<alerts, navVars, selectedPlace, loading, nSelect, genLog,
                   clearedAt, chatVars, jobVars, imgVars>>

\* LanguageSelector onChange={setLang}
SetLang(l) ==
    /\ l # lang
    /\ nLang < MaxLangChanges
    /\ lang' = l
    /\ nLang' = nLang + 1
    /\ UNCHANGED <<alerts, calls, navVars, selVars, chatVars, jobVars,
                   imgVars>>

\* useEffect at mount: searchHeritagePlaces().then(setPlacesList)
SearchArrives(list) ==
    /\ searchPc = "pending"
    /\ searchPc' = "done"
    /\ placesList' = list
    /\ UNCHANGED <<lang, nLang, alerts, calls, view, selVars, chatVars,
                   jobVars, imgVars>>

\* The search promise rejects; no handler is attached to the rejection.
SearchFails ==
    /\ searchPc = "pending"
    /\ searchPc' = "failed"
    /\ UNCHANGED <<lang, nLang, alerts, calls, view, placesList, selVars,
                   chatVars, jobVars, imgVars>>

\* The header's navigation buttons.
SetView(v) ==
    /\ v # view
    /\ view' = v
    /\ UNCHANGED <<lang, nLang, alerts, calls, placesList, searchPc, selVars,
                   chatVars, jobVars, imgVars>>

\* Where the page offers handlePlaceSelect(name): the home view's search box
\* and popular sites, and the explore view's grid while nothing is selected
\* and nothing is loading.
CanSelect(name) ==
    \/ view = "home"
    \/ /\ view = "explore"
       /\ selectedPlace = NoPlace
       /\ ~loading
       /\ \E i \in 1..Len(placesList) : placesList[i] = name

\* handlePlaceSelect up to its first await: setLoading(true),
\* setView('explore'), getSummary(name) issued.  lang is the closure's; n
\* numbers the calls of handlePlaceSelect.
HandlePlaceSelect(name) ==
    /\ CanSelect(name)
    /\ nSelect < MaxSelects
    /\ loading' = TRUE
    /\ view' = "explore"
    /\ nSelect' = nSelect + 1
    /\ placeReqs' = placeReqs \cup
         {[gen |-> Generation + 1, n |-> nSelect + 1, name |-> name,
           lang |-> lang, pc |-> "summary", summary |-> "",
           images |-> << >>, prompt |-> NoPrompt]}
    /\ calls' = [calls EXCEPT !.summary = @ + 1]
    /\ UNCHANGED <<lang, nLang, alerts, placesList, searchPc, selectedPlace,
                   genLog, clearedAt, chatVars, jobVars, imgVars>>

\* getSummary resolves; getPlaceImages(name) is issued.
SummaryArrives(r, s) ==
    /\ r \in placeReqs
    /\ r.pc = "summary"
    /\ placeReqs' = (placeReqs \ {r}) \cup
         {[r EXCEPT !.pc = "images", !.summary = s]}
    /\ calls' = [calls EXCEPT !.images = @ + 1]
    /\ UNCHANGED <<lang, nLang, alerts, navVars, selectedPlace, loading,
                   nSelect, genLog, clearedAt, chatVars, jobVars, imgVars>>

\* Arguments that name the language on display when the call is issued.
GenerateArgsCurrentLang(r) ==
    [placeName |-> r.name, wikiSummary |-> r.summary, lang |-> lang]

\* The arguments of getStructuredContent(name, summary, lang) as
\* handlePlaceSelect passes them: its own name, the summary it awaited and
\* the closure's lang.
GenerateArgs(r) ==
    [placeName |-> r.name, wikiSummary |-> r.summary, lang |-> r.lang]

\* getPlaceImages resolves; getStructuredContent(name, summary, lang) is
\* issued.
ImagesArrive(r, imgs) ==
    /\ r \in placeReqs
    /\ r.pc = "images"
    /\ placeReqs' = (placeReqs \ {r}) \cup
         {[r EXCEPT !.pc = "content", !.images = imgs,
                    !.prompt = GenerateArgs(r)]}
    /\ calls' = [calls EXCEPT !.generate = @ + 1]
    /\ UNCHANGED <<lang, nLang, alerts, navVars, selectedPlace, loading,
                   nSelect, genLog, clearedAt, chatVars, jobVars, imgVars>>

\* The report JSON.parse returns for a request and a generator answer: the
\* prompt names the place and the language it is written in; call names
\* the handlePlaceSelect call whose generator call returned it.
Report(r, resp) ==
    [call |-> r.gen, place |-> r.prompt.placeName, lang |-> r.prompt.lang,
     poets |-> resp.poets, complete |-> resp.complete]

\* getStructuredContent resolves: setSelectedPlace({id, name, content,
\* images}), then finally setLoading(false).
ContentArrives(r, resp) ==
    /\ r \in placeReqs
    /\ r.pc = "content"
    /\ selectedPlace' = [id |-> r.name, name |-> r.name,
                         content |-> Report(r, resp), images |-> r.images]
    /\ loading' = FALSE
    /\ placeReqs' = placeReqs \ {r}
    /\ genLog' = Append(genLog, Report(r, resp))
    /\ UNCHANGED <<lang, nLang, alerts, calls, navVars, nSelect, chatVars,
                   jobVars, clearedAt, imgVars>>

\* What makes an await of handlePlaceSelect reject: a fetch or an answer of
\* the wrong shape ("network"), or, for the generator's answer, JSON.parse
\* throwing on malformed text ("parse").
FailureCauses == {"network", "parse"}
Causes(r) == IF r.pc = "content" THEN FailureCauses ELSE {"network"}

\* catch (error) { console.error(error); alert(...) }: the dialog shown for
\* what was thrown.
FailureAlert(cause) == FetchAlert

\* A failure path that also drops the place on display.
PlaceFailsClearing(r) ==
    /\ r \in placeReqs
    /\ alerts' = Append(alerts, FetchAlert)
    /\ loading' = FALSE
    /\ selectedPlace' = NoPlace
    /\ placeReqs' = placeReqs \ {r}
    /\ UNCHANGED <<lang, nLang, calls, navVars, nSelect, genLog, clearedAt,
                   chatVars, jobVars, imgVars>>

\* A failure path that asks for the summary once more.
PlaceFailsRetry(r) ==
    /\ r \in placeReqs
    /\ calls.summary <= MaxSelects
    /\ alerts' = Append(alerts, FetchAlert)
    /\ placeReqs' = (placeReqs \ {r}) \cup
         {[r EXCEPT !.pc = "summary", !.prompt = NoPrompt]}
    /\ calls' = [calls EXCEPT !.summary = @ + 1]
    /\ UNCHANGED <<lang, nLang, navVars, selectedPlace, loading, nSelect,
                   genLog, clearedAt, chatVars, jobVars, imgVars>>

\* Any of the three awaits rejects (the fetch fails, the answer has no
\* query.pages, or JSON.parse throws): catch alerts, finally
\* setLoading(false).
PlaceFails(r) ==
    /\ r \in placeReqs
    /\ \E cause \in Causes(r) : alerts' = Append(alerts, FailureAlert(cause))
    /\ loading' = FALSE
    /\ placeReqs' = placeReqs \ {r}
    /\ UNCHANGED <<lang, nLang, calls, navVars, selectedPlace, nSelect, genLog,
                   clearedAt, chatVars, jobVars, imgVars>>

\* A way back that also empties the chat.
ClearSelectionResetChat ==
    /\ view = "explore"
    /\ ~loading
    /\ selectedPlace # NoPlace
    /\ selectedPlace' = NoPlace
    /\ clearedAt' = nSelect
    /\ chatMessages' = << >>
    /\ UNCHANGED <<lang, nLang, alerts, calls, navVars, loading, placeReqs,
                   nSelect, genLog, chatInput, chatReqs, nSends, nRejected,
                   jobVars, imgVars>>

\* "Back to explore": setSelectedPlace(null), shown once a place is
\* displayed.
ClearSelection ==
    /\ view = "explore"
    /\ ~loading
    /\ selectedPlace # NoPlace
    /\ selectedPlace' = NoPlace
    /\ clearedAt' = nSelect
    /\ UNCHANGED <<lang, nLang, alerts, calls, navVars, loading, placeReqs,
                   nSelect, genLog, chatVars, jobVars, imgVars>>

\* ---------------------------------------------------------- image lookup
\* One call of WikipediaService.getPlaceImages(title).  A title and a URL
\* are sequences of pieces, so that replace() and endsWith() are computed;
\* an imageinfo answer either holds a URL or none (imageinfo?.[0]?.url
\* undefined).
Titles == {<<"File:", "a">>, <<"b", "File:">>}
InfoAnswers == {[found |-> FALSE, url |-> << >>],
                [found |-> TRUE, url |-> <<"u", ".jpg">>],
                [found |-> TRUE, url |-> <<"v", ".svg">>],
                [found |-> TRUE, url |-> <<"w", ".svg", ".png">>]}
SliceEnd == 5          \* images.slice(0, 5)

\* The page's candidate lists, up to MaxCandidates long.
RECURSIVE SeqsUpTo(_, _)
SeqsUpTo(S, n) ==
    IF n = 0 THEN {<< >>}
    ELSE LET shorter == SeqsUpTo(S, n - 1)
         IN  shorter \cup {Append(q, x) : q \in shorter, x \in S}
PageAnswers == SeqsUpTo(Titles, MaxCandidates)

\* A slice that keeps the whole list.
SliceAll(images) == images

\* images.slice(0, 5)
Slice(images) ==
    SubSeq(images, 1, IF Len(images) < SliceEnd THEN Len(images)
                      ELSE SliceEnd)

\* String.prototype.endsWith
EndsWith(url, piece) == url # << >> /\ url[Len(url)] = piece

\* title.replace('File:', ''): the first occurrence is removed.
RECURSIVE Caption(_)
Caption(title) ==
    IF title = << >> THEN << >>
    ELSE IF Head(title) = "File:" THEN Tail(title)
    ELSE <<Head(title)>> \o Caption(Tail(title))

\* if (url && !url.endsWith('.svg'))
Keeps(info) == info.found /\ info.url # << >> /\ ~EndsWith(info.url, ".svg")

\* getPlaceImages is called: the page's image list is asked for.
GetPlaceImages ==
    /\ imgPc = "idle"
    /\ imgPc' = "page"
    /\ UNCHANGED <<lang, nLang, alerts, calls, navVars, selVars, chatVars,
                   jobVars, pageImages, imgInfo, imageUrls>>

\* The page answers: images = pages[pageId].images || []; the loop over
\* images.slice(0, 5) starts, and with nothing to loop over the empty
\* result is returned.
PageArrives(images) ==
    /\ imgPc = "page"
    /\ pageImages' = images
    /\ imgPc' = IF Slice(images) = << >> THEN "done" ELSE "loop"
    /\ UNCHANGED <<lang, nLang, alerts, calls, navVars, selVars, chatVars,
                   jobVars, imgInfo, imageUrls>>

\* The imageinfo answer for the next candidate of the slice arrives: its
\* URL is pushed if Keeps, and after the last candidate imageUrls is
\* returned.
ImageInfoArrives(info) ==
    /\ imgPc = "loop"
    /\ imgInfo' = Append(imgInfo, info)
    /\ imageUrls' =
         IF Keeps(info)
         THEN Append(imageUrls,
                     [url |-> info.url,
                      caption |-> Caption(Slice(pageImages)[Len(imgInfo) + 1])])
         ELSE imageUrls
    /\ imgPc' = IF Len(imgInfo) + 1 = Len(Slice(pageImages)) THEN "done"
                ELSE "loop"
    /\ UNCHANGED <<lang, nLang, alerts, calls, navVars, selVars, chatVars,
                   jobVars, pageImages>>

\* A fetch of the call rejects: getPlaceImages rejects and returns nothing.
ImagesFail ==
    /\ imgPc \in {"page", "loop"}
    /\ imgPc' = "failed"
    /\ UNCHANGED <<lang, nLang, alerts, calls, navVars, selVars, chatVars,
                   jobVars, pageImages, imgInfo, imageUrls>>

\* ------------------------------------------------------------------ chat
RECURSIVE TrimStart(_)
TrimStart(t) ==
    IF t # << >> /\ Head(t) = " " THEN TrimStart(Tail(t)) ELSE t

RECURSIVE TrimEnd(_)
TrimEnd(t) ==
    IF t # << >> /\ t[Len(t)] = " "
    THEN TrimEnd(SubSeq(t, 1, Len(t) - 1)) ELSE t

\* A trim that removes nothing.
TrimNothing(t) == t

\* String.prototype.trim
Trim(t) == TrimEnd(TrimStart(t))

\* The chat box's onChange: setChatInput(e.target.value)
SetChatInput(t) ==
    /\ t # chatInput
    /\ chatInput' = t
    /\ UNCHANGED <<lang, nLang, alerts, calls, navVars, selVars, chatMessages,
                   chatReqs, nSends, nRejected, jobVars, imgVars>>

\* A send that issues the call without adding the user's message.
HandleChatSendNoEcho ==
    /\ Trim(chatInput) # << >>
    /\ nSends < MaxSends
    /\ chatInput' = << >>
    /\ chatReqs' = chatReqs \cup
         {[n |-> nSends + 1, message |-> chatInput,
           history |-> chatMessages, lang |-> lang]}
    /\ nSends' = nSends + 1
    /\ calls' = [calls EXCEPT !.chat = @ + 1]
    /\ UNCHANGED <<lang, nLang, alerts, navVars, selVars, chatMessages,
                   nRejected, jobVars, imgVars>>

\* handleChatSend up to its await: the trim test, the user message appended
\* by a functional update, the input cleared, GeminiService.chat(chatInput,
\* chatMessages, lang) issued with the closure's transcript and language.
HandleChatSend ==
    /\ Trim(chatInput) # << >>
    /\ nSends < MaxSends
    /\ chatMessages' = Append(chatMessages,
                              [role |-> "user", text |-> chatInput])
    /\ chatInput' = << >>
    /\ chatReqs' = chatReqs \cup
         {[n |-> nSends + 1, message |-> chatInput,
           history |-> chatMessages, lang |-> lang]}
    /\ nSends' = nSends + 1
    /\ calls' = [calls EXCEPT !.chat = @ + 1]
    /\ UNCHANGED <<lang, nLang, alerts, navVars, selVars, nRejected, jobVars,
                   imgVars>>

\* handleChatSend when the trim test fails: if (!chatInput.trim()) return;
HandleChatSendEmpty ==
    /\ Trim(chatInput) = << >>
    /\ nRejected < MaxRejected
    /\ nRejected' = nRejected + 1
    /\ UNCHANGED <<lang, nLang, alerts, calls, navVars, selVars, chatMessages,
                   chatInput, chatReqs, nSends, jobVars, imgVars>>

\* A prompt whose system instruction always names English.
ChatPromptEnglish(c) ==
    [lang |-> "en", message |-> c.message, context |-> << >>]

\* What GeminiService.chat hands the model: a fresh chat session whose
\* system instruction names the language, and the message alone.
ChatPrompt(c) == [lang |-> c.lang, message |-> c.message, context |-> << >>]

\* The model's answer to a prompt.
ReplyText(c) == <<"reply", ChatPrompt(c).lang>> \o ChatPrompt(c).message

\* A reply written from the transcript the handler captured when it was
\* called, instead of by a functional update.
ChatReplyFromClosure(c) ==
    /\ c \in chatReqs
    /\ chatMessages' =
         c.history \o <<[role |-> "user", text |-> c.message],
                        [role |-> "model", text |-> ReplyText(c)]>>
    /\ chatReqs' = chatReqs \ {c}
    /\ UNCHANGED <<lang, nLang, alerts, calls, navVars, selVars, chatInput,
                   nSends, nRejected, jobVars, imgVars>>

\* chat resolves: setChatMessages(prev => [...prev, {role:'model', text}])
ChatReply(c) ==
    /\ c \in chatReqs
    /\ chatMessages' = Append(chatMessages,
                              [role |-> "model", text |-> ReplyText(c)])
    /\ chatReqs' = chatReqs \ {c}
    /\ UNCHANGED <<lang, nLang, alerts, calls, navVars, selVars, chatInput,
                   nSends, nRejected, jobVars, imgVars>>

\* A catch whose apology depends on the language of the call.
ChatFailsLocalised(c) ==
    /\ c \in chatReqs
    /\ chatMessages' = Append(chatMessages,
                              [role |-> "model", text |-> <<"sorry", c.lang>>])
    /\ chatReqs' = chatReqs \ {c}
    /\ UNCHANGED <<lang, nLang, alerts, calls, navVars, selVars, chatInput,
                   nSends, nRejected, jobVars, imgVars>>

\* A catch that swallows the failure.
ChatFailsSilent(c) ==
    /\ c \in chatReqs
    /\ chatReqs' = chatReqs \ {c}
    /\ UNCHANGED <<lang, nLang, alerts, calls, navVars, selVars, chatMessages,
                   chatInput, nSends, nRejected, jobVars, imgVars>>

\* chat rejects: the catch appends the fixed apology.
ChatFails(c) ==
    /\ c \in chatReqs
    /\ chatMessages' = Append(chatMessages,
                              [role |-> "model", text |-> ChatApology])
    /\ chatReqs' = chatReqs \ {c}
    /\ UNCHANGED <<lang, nLang, alerts, calls, navVars, selVars, chatInput,
                   nSends, nRejected, jobVars, imgVars>>

\* -------------------------------------------------------- reconstruction
\* handleFileUpload: a FileReader starts reading the chosen file.
ChooseFile(f) ==
    /\ view = "reconstruct"
    /\ reader = NULL
    /\ reader' = f
    /\ UNCHANGED <<lang, nLang, alerts, calls, navVars, selVars, chatVars,
                   originalImage, reconstructedImage, reconLoading, reconReqs,
                   nJobs, nIgnored, lastJob, imgVars>>

\* reader.onloadend: setOriginalImage(reader.result)
FileLoaded ==
    /\ reader # NULL
    /\ originalImage' = reader
    /\ reader' = NULL
    /\ UNCHANGED <<lang, nLang, alerts, calls, navVars, selVars, chatVars,
                   reconstructedImage, reconLoading, reconReqs, nJobs,
                   nIgnored, lastJob, imgVars>>

\* The start control is rendered in the reconstruct view once an image is
\* loaded.
StartShown == view = "reconstruct" /\ originalImage # NULL

\* A start control that is never disabled.
CanStartAlways == StartShown

\* The start control accepts a press: <button disabled={reconLoading}>.
CanStart == StartShown /\ ~reconLoading

\* A start that forgets setReconLoading(true).
StartReconstructionNoFlag ==
    /\ CanStart
    /\ nJobs < MaxJobs
    /\ reconReqs' = reconReqs \cup
         {[n |-> nJobs + 1, image |-> originalImage,
           context |-> IF selectedPlace # NoPlace THEN selectedPlace.name
                       ELSE DefaultContext]}
    /\ nJobs' = nJobs + 1
    /\ calls' = [calls EXCEPT !.restore = @ + 1]
    /\ UNCHANGED <<lang, nLang, alerts, navVars, selVars, chatVars,
                   originalImage, reader, reconstructedImage, reconLoading,
                   nIgnored, lastJob, imgVars>>

\* startReconstruction up to its await: setReconLoading(true),
\* reconstructMonument(originalImage, selectedPlace?.name || default) issued.
StartReconstruction ==
    /\ CanStart
    /\ nJobs < MaxJobs
    /\ reconLoading' = TRUE
    /\ reconReqs' = reconReqs \cup
         {[n |-> nJobs + 1, image |-> originalImage,
           context |-> IF selectedPlace # NoPlace THEN selectedPlace.name
                       ELSE DefaultContext]}
    /\ nJobs' = nJobs + 1
    /\ calls' = [calls EXCEPT !.restore = @ + 1]
    /\ UNCHANGED <<lang, nLang, alerts, navVars, selVars, chatVars,
                   originalImage, reader, reconstructedImage, nIgnored,
                   lastJob, imgVars>>

\* A press of the start control while it is disabled: no handler runs.
StartWhileRunning ==
    /\ StartShown
    /\ ~CanStart
    /\ nIgnored < MaxIgnored
    /\ nIgnored' = nIgnored + 1
    /\ UNCHANGED <<lang, nLang, alerts, calls, navVars, selVars, chatVars,
                   originalImage, reader, reconstructedImage, reconLoading,
                   reconReqs, nJobs, lastJob, imgVars>>

\* reconstructMonument's loop over the answer's parts: the last inlineData
\* part wins, '' when there is none.
RECURSIVE ImageUrl(_, _)
ImageUrl(parts, acc) ==
    IF parts = << >> THEN acc
    ELSE ImageUrl(Tail(parts),
                  IF Head(parts) # "text"
                  THEN "data:image/png;base64," \o Head(parts) ELSE acc)

\* reconstructMonument resolves: setReconstructedImage(res), then finally
\* setReconLoading(false).
ReconArrives(j, parts) ==
    /\ j \in reconReqs
    /\ reconstructedImage' = ImageUrl(parts, "")
    /\ reconLoading' = FALSE
    /\ reconReqs' = reconReqs \ {j}
    /\ lastJob' = "resolved"
    /\ UNCHANGED <<lang, nLang, alerts, calls, navVars, selVars, chatVars,
                   originalImage, reader, nJobs, nIgnored, imgVars>>

\* A catch with no finally after it: the flag stays set.
ReconFailsNoFinally(j) ==
    /\ j \in reconReqs
    /\ alerts' = Append(alerts, ReconAlert)
    /\ reconReqs' = reconReqs \ {j}
    /\ lastJob' = "rejected"
    /\ UNCHANGED <<lang, nLang, calls, navVars, selVars, chatVars,
                   originalImage, reader, reconstructedImage, reconLoading,
                   nJobs, nIgnored, imgVars>>

\* reconstructMonument rejects: catch alerts, finally setReconLoading(false).
ReconFails(j) ==
    /\ j \in reconReqs
    /\ alerts' = Append(alerts, ReconAlert)
    /\ reconLoading' = FALSE
    /\ reconReqs' = reconReqs \ {j}
    /\ lastJob' = "rejected"
    /\ UNCHANGED <<lang, nLang, calls, navVars, selVars, chatVars,
                   originalImage, reader, reconstructedImage, nJobs, nIgnored,
                   imgVars>>

\* The status of the current job as the page shows it: running while
\* reconLoading, afterwards done when the call resolved (the try ran to its
\* end) and failed when it rejected (the catch ran).
JobStatus ==
    IF reconLoading THEN "running"
    ELSE IF lastJob = "resolved" THEN "done"
    ELSE IF lastJob = "rejected" THEN "failed"
    ELSE "none"

\* -------------------------------------------------------- specifications
\* The selection orchestrator with the navigation it depends on.
NextSel ==
    \/ \E l \in Languages : SetLang(l)
    \/ \E list \in SearchResults : SearchArrives(list)
    \/ SearchFails
    \/ \E v \in Views : SetView(v)
    \/ \E name \in Places : HandlePlaceSelect(name)
    \/ \E r \in placeReqs, s \in Summaries : SummaryArrives(r, s)
    \/ \E r \in placeReqs, imgs \in ImageLists : ImagesArrive(r, imgs)
    \/ \E r \in placeReqs, resp \in Responses : ContentArrives(r, resp)
    \/ \E r \in placeReqs : PlaceFails(r)
    \/ ClearSelection

\* The chat session with the language switch it reads.
NextChat ==
    \/ \E l \in Languages : SetLang(l)
    \/ \E t \in ChatInputs : SetChatInput(t)
    \/ HandleChatSend
    \/ HandleChatSendEmpty
    \/ \E c \in chatReqs : ChatReply(c)
    \/ \E c \in chatReqs : ChatFails(c)

\* The reconstruction job with the navigation it depends on.
NextJob ==
    \/ \E v \in Views : SetView(v)
    \/ \E f \in Files : ChooseFile(f)
    \/ FileLoaded
    \/ StartReconstruction
    \/ StartWhileRunning
    \/ \E j \in reconReqs, parts \in PartLists : ReconArrives(j, parts)
    \/ \E j \in reconReqs : ReconFails(j)

\* User intents issued so far, over all components.
Intents == nSelect + nLang + nSends + nJobs
Budget == Intents < MaxIntents

\* The whole program, for at most MaxIntents user intents.
Next ==
    \/ \E l \in Languages : Budget /\ SetLang(l)
    \/ \E list \in SearchResults : SearchArrives(list)
    \/ SearchFails
    \/ \E v \in Views : SetView(v)
    \/ \E name \in Places : Budget /\ HandlePlaceSelect(name)
    \/ \E r \in placeReqs, s \in Summaries : SummaryArrives(r, s)
    \/ \E r \in placeReqs, imgs \in ImageLists : ImagesArrive(r, imgs)
    \/ \E r \in placeReqs, resp \in Responses : ContentArrives(r, resp)
    \/ \E r \in placeReqs : PlaceFails(r)
    \/ ClearSelection
    \/ \E t \in ChatInputs : SetChatInput(t)
    \/ Budget /\ HandleChatSend
    \/ HandleChatSendEmpty
    \/ \E c \in chatReqs : ChatReply(c)
    \/ \E c \in chatReqs : ChatFails(c)
    \/ \E f \in Files : ChooseFile(f)
    \/ FileLoaded
    \/ Budget /\ StartReconstruction
    \/ StartWhileRunning
    \/ \E j \in reconReqs, parts \in PartLists : ReconArrives(j, parts)
    \/ \E j \in reconReqs : ReconFails(j)

\* One call of getPlaceImages.
NextImages ==
    \/ GetPlaceImages
    \/ \E images \in PageAnswers : PageArrives(images)
    \/ \E info \in InfoAnswers : ImageInfoArrives(info)
    \/ ImagesFail

\* Selection and reconstruction together, for at most MaxLive selections
\* and jobs.
LiveBudget == nSelect + nJobs < MaxLive
NextLive ==
    \/ \E v \in Views : SetView(v)
    \/ \E name \in Places : LiveBudget /\ HandlePlaceSelect(name)
    \/ \E r \in placeReqs, s \in Summaries : SummaryArrives(r, s)
    \/ \E r \in placeReqs, imgs \in ImageLists : ImagesArrive(r, imgs)
    \/ \E r \in placeReqs, resp \in Responses : ContentArrives(r, resp)
    \/ \E r \in placeReqs : PlaceFails(r)
    \/ ClearSelection
    \/ \E f \in Files : ChooseFile(f)
    \/ FileLoaded
    \/ LiveBudget /\ StartReconstruction
    \/ StartWhileRunning
    \/ \E j \in reconReqs, parts \in PartLists : ReconArrives(j, parts)
    \/ \E j \in reconReqs : ReconFails(j)

\* The gateway answers some awaited call of handlePlaceSelect, and the
\* event loop resumes the handler.
PlaceAnswered ==
    \E r \in placeReqs :
        \/ \E s \in Summaries : SummaryArrives(r, s)
        \/ \E imgs \in ImageLists : ImagesArrive(r, imgs)
        \/ \E resp \in Responses : ContentArrives(r, resp)
        \/ PlaceFails(r)

\* The gateway answers the awaited call of startReconstruction.
ReconAnswered ==
    \E j \in reconReqs :
        \/ \E parts \in PartLists : ReconArrives(j, parts)
        \/ ReconFails(j)

Spec == Init /\ [][Next]_vars
\* Every gateway call is answered in the end, by a result or a failure.
SpecLive ==
    /\ Init
    /\ [][NextLive]_vars
    /\ WF_vars(PlaceAnswered)
    /\ WF_vars(ReconAnswered)
SpecImages == Init /\ [][NextImages]_vars
SpecSel == Init /\ [][NextSel]_vars
SpecChat == Init /\ [][NextChat]_vars
SpecJob == Init /\ [][NextJob]_vars
\* ---------------------------------------------------------------- claims
\* The handlePlaceSelect instance r ends in this step.
Completed(r) == r \in placeReqs /\ \A q \in placeReqs' : q.gen # r.gen

\* Some report for (place, l) has been generated.
Generated(place, l) ==
    \E i \in 1..Len(genLog) : genLog[i].place = place /\ genLog[i].lang = l

\* The first report generated for (place, l).
FirstReport(place, l) ==
    genLog[CHOOSE i \in 1..Len(genLog) :
             /\ genLog[i].place = place /\ genLog[i].lang = l
             /\ \A k \in 1..(i - 1) :
                  ~(genLog[k].place = place /\ genLog[k].lang = l)]

\* C1 (supersession): the content on display never comes from an earlier
\* handlePlaceSelect call than one whose report has already arrived, so
\* that once all responses are in it is the last call's.
C1_Supersession ==
    selectedPlace # NoPlace =>
        \A i \in 1..Len(genLog) : genLog[i].call <= selectedPlace.content.call

\* C2 (stale responses are discarded): when a handlePlaceSelect instance
\* ends, by success or failure, with a tag other than the current
\* generation counter, the selection, the loading flag and the error
\* dialogs are left as they were.
C2_StaleDiscarded ==
    [][\A r \in placeReqs :
         (Completed(r) /\ r.gen # Generation)
             => UNCHANGED <<selectedPlace, loading, alerts>>]_vars

\* C3 (content follows the language): whenever a place is on display its
\* content is a report generated for the current language.
C3_ContentInCurrentLanguage ==
    selectedPlace # NoPlace => selectedPlace.content.lang = lang

\* C4 (cache correctness): a language switch to l while a place is on
\* display for which a report in l was generated before shows exactly the
\* first such report and issues no generator call.
C4_CacheCorrect ==
    [][(lang' # lang /\ selectedPlace # NoPlace
            /\ Generated(selectedPlace.id, lang'))
         => /\ calls'.generate = calls.generate
            /\ selectedPlace' # NoPlace
            /\ selectedPlace'.content = FirstReport(selectedPlace.id, lang')]_vars

\* C5 (language switch regenerates): a language switch to l while a place
\* is on display for which no report in l was generated issues exactly one
\* generator call, for that place and l.
C5_SwitchIssuesOneGeneration ==
    [][(lang' # lang /\ selectedPlace # NoPlace
            /\ ~Generated(selectedPlace.id, lang'))
         => /\ calls'.generate = calls.generate + 1
            /\ \E r \in placeReqs' \ placeReqs :
                 r.name = selectedPlace.id /\ r.lang = lang']_vars

\* C6 (language switch frame): a language switch issues no summary and no
\* images request, starts no handlePlaceSelect instance, and leaves the id,
\* the name and the images of the place on display as they were.
C6_SwitchLeavesPlaceData ==
    [][lang' # lang =>
         /\ calls'.summary = calls.summary
         /\ calls'.images = calls.images
         /\ placeReqs' = placeReqs
         /\ (selectedPlace = NoPlace) = (selectedPlace' = NoPlace)
         /\ selectedPlace # NoPlace =>
              /\ selectedPlace'.id = selectedPlace.id
              /\ selectedPlace'.name = selectedPlace.name
              /\ selectedPlace'.images = selectedPlace.images]_vars

\* A place with images is on display and the language has been switched
\* since its report was asked for.
C6_Witness ==
    /\ selectedPlace # NoPlace
    /\ selectedPlace.images # << >>
    /\ selectedPlace.content.lang # lang
    /\ nLang > 0

\* C7 (failed selection): a handlePlaceSelect instance that ends without a
\* report leaves the selection as it was, shows the error dialog and
\* clears the loading flag; and no step of an instance short of its report
\* arriving changes the selection.
C7_FailureKeepsSelection ==
    [][/\ \A r \in placeReqs :
            (Completed(r) /\ genLog' = genLog)
                => /\ selectedPlace' = selectedPlace
                   /\ alerts' = Append(alerts, FetchAlert)
                   /\ loading' = FALSE
       /\ (placeReqs' # placeReqs /\ genLog' = genLog)
            => selectedPlace' = selectedPlace]_vars

\* A selection failed while an earlier one is on display.
C7_Witness ==
    /\ selectedPlace # NoPlace
    /\ Len(alerts) > 0
    /\ nSelect = 2
    /\ placeReqs = {}
    /\ ~loading
    /\ selectedPlace.content.call = 1
Turns(role) ==
    Cardinality({i \in 1..Len(chatMessages) : chatMessages[i].role = role})

\* C9 (chat turn pairing): every send past the trim test has added its
\* user message, every one whose call has ended, by answer or by failure,
\* has added exactly one assistant message as well, and with no call in
\* flight there are as many assistant turns as user turns.
C9_TurnPairing ==
    /\ Turns("user") = nSends
    /\ Turns("model") = nSends - Cardinality(chatReqs)
    /\ Len(chatMessages) = 2 * nSends - Cardinality(chatReqs)
    /\ chatReqs = {} => Turns("user") = Turns("model")

\* Two sends have ended, one by an answer and one by a failure.
C9_Witness ==
    /\ chatReqs = {}
    /\ nSends = 2
    /\ \E i \in 1..Len(chatMessages) : chatMessages[i].text = ChatApology
    /\ \E i \in 1..Len(chatMessages) :
         chatMessages[i].role = "model" /\ chatMessages[i].text # ChatApology

IsPrefix(s, t) == Len(s) <= Len(t) /\ SubSeq(t, 1, Len(s)) = s

\* C10 (append-only transcript): across every step of the program the
\* transcript before the step is a prefix of the transcript after it.
C10_AppendOnly == [][IsPrefix(chatMessages, chatMessages')]_vars

\* Two overlapping sends have both been answered.
C10_Witness ==
    /\ Len(chatMessages) = 4
    /\ chatMessages[1].role = "user"
    /\ chatMessages[2].role = "user"
    /\ chatReqs = {}

\* C11 (malformed answers rejected): the content on display never lacks a
\* required field, and neither does any report the program has accepted.
C11_OnlyCompleteReports ==
    /\ selectedPlace # NoPlace => selectedPlace.content.complete
    /\ \A i \in 1..Len(genLog) : genLog[i].complete

\* C12 (poets minimum): the content on display has at least two poets.
C12_AtLeastTwoPoets ==
    selectedPlace # NoPlace => selectedPlace.content.poets >= 2

\* C13 (no image part is a failure): when a restoration call resolves with
\* an answer that holds no inline image part, the job ends failed, the
\* failure is reported and no result is kept.
C13_NoImageIsFailure ==
    [][(Cardinality(reconReqs') < Cardinality(reconReqs)
            /\ lastJob' = "resolved" /\ reconstructedImage' = "")
         => /\ JobStatus' = "failed"
            /\ alerts' = Append(alerts, ReconAlert)]_vars

\* C14 (job life cycle): the job status changes only from none, done or
\* failed to running, by a new startReconstruction call, and from running
\* to done or failed, by the end of the running call; while the status is
\* not running neither the outcome nor the image on display changes.
C14_JobLifeCycle ==
    [][/\ JobStatus' # JobStatus =>
            \/ /\ JobStatus \in {"none", "done", "failed"}
               /\ JobStatus' = "running"
               /\ nJobs' = nJobs + 1
            \/ /\ JobStatus = "running"
               /\ JobStatus' \in {"done", "failed"}
               /\ nJobs' = nJobs
       /\ (lastJob' # lastJob \/ reconstructedImage' # reconstructedImage)
            => JobStatus = "running"
       /\ nJobs' # nJobs => JobStatus' = "running"]_vars

\* A second job has failed after a first one ended.
C14_Witness ==
    /\ nJobs = 2
    /\ JobStatus = "failed"
    /\ Len(alerts) = 1

\* C15 (result only for a done job): while the job is running or failed
\* no reconstructed image is held.
C15_ResultOnlyWhenDone ==
    JobStatus \in {"running", "failed"}
        => reconstructedImage \in {NULL, ""}

\* The text consists of blanks only (or of nothing).
AllBlank(t) == \A i \in 1..Len(t) : t[i] = " "

\* C16 (empty message rejected): a send with a text that is blank after
\* trimming issues no chat call and leaves the transcript and the calls in
\* flight as they are; and no step taken while the input is blank starts a
\* send.
C16_EmptyMessageRejected ==
    [][/\ nRejected' # nRejected =>
            /\ AllBlank(chatInput)
            /\ calls' = calls
            /\ UNCHANGED <<chatMessages, chatReqs, nSends>>
       /\ AllBlank(chatInput) =>
            /\ calls'.chat = calls.chat
            /\ nSends' = nSends
            /\ chatReqs' \subseteq chatReqs]_vars

\* A send of a text of blanks was rejected with a conversation under way.
C16_Witness ==
    /\ nRejected > 0
    /\ chatInput = <<" ">>
    /\ Len(chatMessages) > 0

\* C17 (user turn first): for every chat call in flight the transcript
\* holds the user message of its send, right after the turns the
\* transcript held when the send was made.
C17_UserTurnBeforeCall ==
    \A c \in chatReqs :
        /\ Len(chatMessages) > Len(c.history)
        /\ SubSeq(chatMessages, 1, Len(c.history)) = c.history
        /\ chatMessages[Len(c.history) + 1] =
             [role |-> "user", text |-> c.message]

\* Two chat calls are in flight.
C17_Witness == Cardinality(chatReqs) = 2

\* C18 (fixed apology): the end of a chat call appends exactly one
\* assistant message, which is the model's reply or else one fixed
\* apology text, whatever the language of the call, and shows no error
\* dialog.
C18_FixedApology ==
    [][\A c \in chatReqs : c \notin chatReqs' =>
         /\ \/ chatMessages' = Append(chatMessages,
                    [role |-> "model", text |-> ReplyText(c)])
            \/ chatMessages' = Append(chatMessages,
                    [role |-> "model", text |-> ChatApology])
         /\ alerts' = alerts
         /\ chatReqs' = chatReqs \ {c}]_vars

\* Calls made in two languages have both failed.
C18_Witness ==
    /\ chatReqs = {}
    /\ Len(chatMessages) = 4
    /\ chatMessages[2].text = ChatApology
    /\ chatMessages[4].text = ChatApology
    /\ nLang > 0

\* C19 (language per call): a send hands the model the language that is
\* current at the send, and a language switch leaves the transcript as it
\* is.
C19_CallCarriesCurrentLanguage ==
    [][/\ \A c \in chatReqs' \ chatReqs :
            c.lang = lang /\ ChatPrompt(c).lang = lang
       /\ lang' # lang => chatMessages' = chatMessages]_vars

\* Two calls are in flight, made in different languages.
C19_Witness ==
    \E c, d \in chatReqs :
        ChatPrompt(c).lang # ChatPrompt(d).lang /\ Len(d.history) > 0

\* C20 (transcript as context): for every chat call in flight the context
\* handed to the model is the transcript as it stood before the send.
C20_ContextIsTranscript ==
    \A c \in chatReqs :
        ChatPrompt(c).context = SubSeq(chatMessages, 1, Len(c.history))

\* C21 (gateway failures are caught): every gateway call that fails
\* leaves a mark in the state on display: a failed search changes what is
\* shown, a failed selection shows the error dialog and clears loading, a
\* failed restoration shows its dialog and ends the job failed, and a
\* failed chat call adds an assistant message.
C21_GatewayFailuresCaught ==
    [][/\ (searchPc = "pending" /\ searchPc' = "failed")
            => <<alerts, placesList, view, selectedPlace, loading>>'
                 # <<alerts, placesList, view, selectedPlace, loading>>
       /\ \A r \in placeReqs :
            (Completed(r) /\ genLog' = genLog)
                => alerts' = Append(alerts, FetchAlert) /\ ~loading'
       /\ (reconReqs' # reconReqs /\ lastJob' = "rejected")
            => alerts' = Append(alerts, ReconAlert) /\ JobStatus' = "failed"
       /\ \A c \in chatReqs \ chatReqs' :
            /\ Len(chatMessages') = Len(chatMessages) + 1
            /\ chatMessages'[Len(chatMessages')].role = "model"]_vars

\* C22 (no automatic retry): there is one summary call per
\* handlePlaceSelect call and at most one images and one generator call,
\* one chat call per send, one restoration call per job and one search;
\* a step that ends a call, by result or by failure, issues no call; and
\* calls are issued only by a new intent or by a handler whose previous
\* await returned a result.
C22_NoAutomaticRetry ==
    /\ [](/\ calls.summary = nSelect
          /\ calls.images <= calls.summary
          /\ calls.generate <= calls.images
          /\ calls.chat = nSends
          /\ calls.restore = nJobs
          /\ calls.search = 1
          /\ Cardinality(placeReqs) <= nSelect)
    /\ [][/\ (\/ Cardinality(placeReqs') < Cardinality(placeReqs)
              \/ Cardinality(chatReqs') < Cardinality(chatReqs)
              \/ Cardinality(reconReqs') < Cardinality(reconReqs)
              \/ alerts' # alerts)
               => calls' = calls
          /\ calls' # calls =>
               \/ nSelect' = nSelect + 1
               \/ nSends' = nSends + 1
               \/ nJobs' = nJobs + 1
               \/ \E r \in placeReqs, q \in placeReqs' :
                    /\ q.gen = r.gen
                    /\ <<r.pc, q.pc>> \in {<<"summary", "images">>,
                                           <<"images", "content">>}
                    /\ alerts' = alerts]_vars

\* A selection failed at its generator call and a chat call failed, and
\* nothing is in flight.
C22_Witness ==
    /\ nSelect = 1
    /\ placeReqs = {}
    /\ calls.generate = 1
    /\ genLog = << >>
    /\ nSends = 1
    /\ chatReqs = {}
    /\ Len(chatMessages) = 2
    /\ chatMessages[2].text = ChatApology

\* C24 (clearSelection): a step that takes the place off display leaves
\* the language, the chat, the reconstruction job, the loading flag, the
\* dialogs and the calls as they are; and "Back to explore" always ends
\* with no place on display.
C24_ClearSelectionFrame ==
    [][/\ (selectedPlace # NoPlace /\ selectedPlace' = NoPlace)
            => UNCHANGED <<lang, chatMessages, chatInput, chatReqs,
                           originalImage, reconstructedImage, reconLoading,
                           reconReqs, lastJob, loading, alerts, calls,
                           placeReqs>>
       /\ clearedAt' # clearedAt => selectedPlace' = NoPlace]_vars

\* The place was taken off display with a conversation under way.
C24_Witness ==
    /\ selectedPlace = NoPlace
    /\ clearedAt > 0
    /\ Len(chatMessages) > 0

\* C25 (kinds of failure told apart): when a handlePlaceSelect call fails,
\* the dialog shown tells whether the generator's answer was malformed or
\* the network failed: it is the dialog of exactly one of the causes.
C25_FailureKindsDistinct ==
    [][\A r \in placeReqs :
         (Completed(r) /\ genLog' = genLog)
             => \E cause \in FailureCauses :
                  /\ alerts' = Append(alerts, FailureAlert(cause))
                  /\ \A other \in FailureCauses \ {cause} :
                       alerts' # Append(alerts, FailureAlert(other))]_vars

\* C26 (loading while the latest selection is pending): while the latest
\* handlePlaceSelect call has not ended, loading is true.
C26_LoadingWhileLatestPending ==
    (\E r \in placeReqs : r.n = nSelect) => loading

\* C27 (order and arguments of a selection): a new handlePlaceSelect call
\* captures the language on display; a call keeps its name and language;
\* it asks for the images after the summary and for the report after the
\* images, with its name, the summary it received and its language; and
\* a report that arrives puts on display the call's name as id, the
\* images it received and that report.
C27_ReportAfterFetches ==
    [][/\ \A q \in placeReqs' :
            (\A r \in placeReqs : r.gen # q.gen)
                => q.pc = "summary" /\ q.lang = lang /\ q.prompt = NoPrompt
       /\ \A r \in placeReqs, q \in placeReqs' :
            q.gen = r.gen =>
                /\ q.name = r.name /\ q.lang = r.lang
                /\ q.pc = r.pc => q = r
                /\ q.pc # r.pc =>
                     \/ /\ r.pc = "summary" /\ q.pc = "images"
                        /\ calls'.images = calls.images + 1
                        /\ calls'.generate = calls.generate
                        /\ q.prompt = NoPrompt
                     \/ /\ r.pc = "images" /\ q.pc = "content"
                        /\ q.summary = r.summary
                        /\ calls'.generate = calls.generate + 1
                        /\ q.prompt = [placeName |-> r.name,
                                       wikiSummary |-> r.summary,
                                       lang |-> r.lang]
       /\ calls'.generate # calls.generate =>
            \E r \in placeReqs : r.pc = "images" /\ r \notin placeReqs'
       /\ genLog' # genLog =>
            \E r \in placeReqs :
                /\ r.pc = "content" /\ Completed(r)
                /\ genLog' = Append(genLog, selectedPlace'.content)
                /\ selectedPlace'.id = r.name
                /\ selectedPlace'.name = r.name
                /\ selectedPlace'.images = r.images
                /\ selectedPlace'.content.place = r.name
                /\ selectedPlace'.content.lang = r.lang]_vars

\* A report asked for before a language switch is on display with its
\* images, and a second call waits for its report with a fetched summary.
C27_Witness ==
    /\ selectedPlace # NoPlace
    /\ selectedPlace.images # << >>
    /\ selectedPlace.content.lang # lang
    /\ \E r \in placeReqs :
         r.pc = "content" /\ r.prompt.wikiSummary = "extract"

\* The candidates the lookup may consider, and which of the answers
\* received so far hold a usable URL.
Considered == IF Len(pageImages) < 5 THEN Len(pageImages) ELSE 5
Usable ==
    {i \in 1..Len(imgInfo) :
        /\ imgInfo[i].found
        /\ imgInfo[i].url # << >>
        /\ imgInfo[i].url[Len(imgInfo[i].url)] # ".svg"}

\* C28 (images lookup): the lookup never looks past the first five
\* candidates and looks at all of them before it returns; its result
\* holds at most five images, which are exactly the candidates looked at
\* that have a URL not ending in .svg, in the order of the page.
C28_AtMostFiveImages ==
    /\ Len(imageUrls) <= 5
    /\ Len(imgInfo) <= Considered
    /\ imgPc = "done" => Len(imgInfo) = Considered
    /\ Len(imageUrls) = Cardinality(Usable)
    /\ \A k \in 1..Len(imageUrls) :
         LET i == CHOOSE i \in Usable :
                    Cardinality({j \in Usable : j < i}) = k - 1
         IN  /\ imageUrls[k].url = imgInfo[i].url
             /\ imageUrls[k].caption = Caption(pageImages[i])

\* A lookup over six candidates has returned three images, after an .svg
\* and a candidate without URL were dropped.
C28_Witness ==
    /\ imgPc = "done"
    /\ Len(pageImages) = 6
    /\ Len(imageUrls) = 3
    /\ \E i \in 1..Len(imgInfo) : ~imgInfo[i].found
    /\ \E i \in 1..Len(imgInfo) : imgInfo[i].url = <<"v", ".svg">>

\* C29 (termination): with every gateway call answered in the end, loading
\* is always cleared again, every handlePlaceSelect call ends, and a job
\* that is running ends done or failed, also after the start control was
\* pressed while it ran.
C29_EverythingSettles ==
    /\ loading ~> ~loading
    /\ \A n \in 1..MaxSelects :
         (\E r \in placeReqs : r.n = n) ~> (\A r \in placeReqs : r.n # n)
    /\ reconLoading ~> (JobStatus \in {"done", "failed"})
    /\ (reconLoading /\ nIgnored > 0) ~> (JobStatus \in {"done", "failed"})

\* A job has ended after the start control was pressed while it ran, and
\* a selection has ended as well.
C29_Witness ==
    /\ nIgnored > 0
    /\ JobStatus \in {"done", "failed"}
    /\ nSelect > 0
    /\ placeReqs = {}
    /\ ~loading

\* C30 (cleared stays cleared): once "Back to explore" has run, a step
\* that puts a place on display belongs to a handlePlaceSelect call made
\* after it.
C30_ClearedStaysCleared ==
    [][(selectedPlace = NoPlace /\ selectedPlace' # NoPlace)
         => \E r \in placeReqs : Completed(r) /\ r.n > clearedAt]_vars

\* C31 (replies in the order of their messages): a chat call ends, by
\* reply or by apology, only when no earlier send is still waiting, so
\* that the assistant messages stand in the order of the user messages
\* they answer; and with no chat call in flight the transcript alternates
\* user, assistant, user, assistant.
C31_RepliesInSendOrder ==
    /\ [][\A c \in chatReqs \ chatReqs' : \A d \in chatReqs' : d.n > c.n]_vars
    /\ [](chatReqs = {} =>
            \A i \in 1..Len(chatMessages) :
                chatMessages[i].role = IF i % 2 = 1 THEN "user" ELSE "model")
====
